---- MODULE Spec2Model ----
(***************************************************************************)
(* Model of zapctxd (src/logger.go, lines 1-410): a contextualized logger  *)
(* on top of zap.  The state is the heap of Logger values (the one built   *)
(* by New or WrapZapLoggers and the views made by SkipCaller), the bytes   *)
(* of the configured output and of the context-supplied writer (as         *)
(* sequences of records), history variables describing the last log call  *)
(* and the last SetLevelEnabler, the goroutines of concurrent callers and  *)
(* the goroutine that stores a new level enabler while they run.           *)
(* Key/value sequences are flat, as in the Go code: keys at odd 1-based    *)
(* positions, values at even ones.                                         *)
(***************************************************************************)
EXTENDS Integers, Sequences, FiniteSets, TLC

VARIABLES loggers, out, w, calls, last, lastSet, aborted, origin,
          goroutines, serialized, setter

vars == <<loggers, out, w, calls, last, lastSet, aborted, origin,
          goroutines, serialized, setter>>

(***************************************************************************)
(* Bounds of the model.                                                    *)
(***************************************************************************)
MaxCalls == 2
MaxLoggers == 2
MaxViewCalls == 2
MaxViews == 3
MaxArgPairs == 2
MaxFieldPairs == 1
MaxGoroutines == 2
MaxRaceCallers == 2
MaxStores == 1
MaxOptionCalls == 1
MaxOptionViews == 2

(***************************************************************************)
(* zapcore levels used by the five operations.                             *)
(***************************************************************************)
DebugLevel == -1
InfoLevel == 0
WarnLevel == 1
ErrorLevel == 2

Levels == {DebugLevel, InfoLevel, WarnLevel, ErrorLevel}

(***************************************************************************)
(* Elements of key/value sequences: strings, integers and error values.    *)
(* An element is a record of one shape so that Go's interface equality     *)
(* (kv[j] == tuples[k]) is record equality.                                *)
(***************************************************************************)
Str(s) == [t |-> "str", s |-> s, n |-> 0]
Num(n) == [t |-> "int", s |-> "", n |-> n]
Err(e) == [t |-> "err", s |-> "", n |-> e]

IsError(v) == v.t = "err"

(***************************************************************************)
(* The error values of the model.  1: a plain error.  2, 3, 5: structured  *)
(* errors (ctxd.StructuredError).  4: a plain error wrapping structured    *)
(* error 2 (errors.As finds 2 in its chain; its own message differs).      *)
(***************************************************************************)
Errors == 1..5

ErrorMsg(e) ==
    CASE e = 1 -> "failed"
      [] e = 2 -> "making foo: failed"
      [] e = 3 -> "making bar: failed"
      [] e = 4 -> "outer: making foo: failed"
      [] e = 5 -> "nested: failed"

\* errors.As(err, &se): the structured error found in err's chain, 0 if none.
AsStructured(e) ==
    CASE e = 1 -> 0
      [] e = 2 -> 2
      [] e = 3 -> 3
      [] e = 4 -> 2
      [] e = 5 -> 5

\* se.Tuples(): the third has a key shared with the second and with the
\* call sites of the model, and a dangling last key; the fifth carries an
\* error as a value.
Tuples(e) ==
    CASE e = 2 -> <<Str("detail"), Num(1), Str("detail2"), Num(2)>>
      [] e = 3 -> <<Str("detail"), Num(3), Str("foo"), Num(9), Str("odd")>>
      [] e = 5 -> <<Str("cause"), Err(3)>>
      [] OTHER -> <<>>

(***************************************************************************)
(* Level enablers (zapcore.LevelEnabler values): a threshold (a Level, or   *)
(* the AtomicLevel made by New) or a zapcore.Core, which is a              *)
(* LevelEnabler too.                                                       *)
(***************************************************************************)
Enabler(kind, lvl) == [kind |-> kind, lvl |-> lvl]

Enabled(e, lvl) == lvl >= e.lvl

(***************************************************************************)
(* A pipeline: a zap.SugaredLogger over one zapcore core.  Its gate is     *)
(* either the closure loggerLevelEnabler(l), which reads the levelEnabler  *)
(* field of Logger l at every check, or a fixed enabler.                   *)
(***************************************************************************)
NoLogger == 0

ClosureGate(lg) == [kind |-> "closure", lg |-> lg, lvl |-> 0]
FixedGate(lvl) == [kind |-> "fixed", lg |-> NoLogger, lvl |-> lvl]

\* fields: the fields its options (zap.Fields) put on every record.
Pipeline(gate, sink, addCaller, skip, fields) ==
    [kind |-> "pipeline", gate |-> gate, sink |-> sink,
     addCaller |-> addCaller, skip |-> skip, fields |-> fields]

Nil ==
    [kind |-> "nil", gate |-> FixedGate(0), sink |-> "", addCaller |-> FALSE,
     skip |-> 0, fields |-> <<>>]

loggerLevelEnabler(lg, lvl) == Enabled(loggers[lg].levelEnabler, lvl)

GateEnabled(g, lvl) ==
    IF g.kind = "closure" THEN loggerLevelEnabler(g.lg, lvl) ELSE lvl >= g.lvl

(***************************************************************************)
(* Construction.                                                           *)
(***************************************************************************)
\* Logger.make: both pipelines write to l.out with l.options; the normal one
\* is gated by the closure over l, the debug one by DebugLevel.
make(lg, devMode, options) ==
    [sugared |-> Pipeline(ClosureGate(lg), "out", devMode, IF devMode THEN 1 ELSE 0, options),
     debug   |-> Pipeline(FixedGate(DebugLevel), "out", devMode, IF devMode THEN 1 ELSE 0,
                          options)]

\* append(cfg.ZapOptions, options...), with the constructor's options first.
appendOptions_constructorFirst(ZapOptions, options) == options \o ZapOptions

\* append(cfg.ZapOptions, options...): options are modelled by the fields
\* they add (zap.Fields), as flat key/value sequences.
appendOptions(ZapOptions, options) == ZapOptions \o options

\* The zero zap.AtomicLevel: its pointer to the level cell is nil.
ZeroAtomicLevel == [l |-> "nil"]

\* New(cfg): the zero Level means Info.  The exported field AtomicLevel is
\* not set: the AtomicLevel made here goes to levelEnabler only.
New(lg, cfgLevel, devMode, ZapOptions, options) ==
    LET level == IF cfgLevel # 0 THEN cfgLevel ELSE InfoLevel
        m == make(lg, devMode, appendOptions(ZapOptions, options))
    IN [AtomicLevel |-> ZeroAtomicLevel,
        callerSkip |-> devMode,
        options |-> appendOptions(ZapOptions, options),
        levelEnabler |-> Enabler("threshold", level),
        sugared |-> m.sugared,
        debug |-> m.debug]

\* WrapZapLoggers(sugared, debug, ...): the handles are the caller's, each
\* with the gate of its own core; the enabler is the core of sugared.  The
\* callers of the model pass no options.
WrapZapLoggers(sugaredLvl, debugLvl) ==
    [AtomicLevel |-> ZeroAtomicLevel,
     callerSkip |-> FALSE,
     options |-> <<>>,
     levelEnabler |-> Enabler("core", sugaredLvl),
     sugared |-> Pipeline(FixedGate(sugaredLvl), "out", FALSE, 0, <<>>),
     debug |-> Pipeline(FixedGate(debugLvl), "out", FALSE, 0, <<>>)]

(***************************************************************************)
(* Contexts: the forced-verbose marker (ctxd.IsDebug), the one-off writer  *)
(* (ctxd.LogWriter) and the accumulated fields (ctxd.Fields).              *)
(***************************************************************************)
Ctx(debug, writer, fields) == [debug |-> debug, writer |-> writer, fields |-> fields]

WithDebug(ctx) == [ctx EXCEPT !.debug = TRUE]

(***************************************************************************)
(* Logger.get: the pipeline of one call, Nil for a no-op.  The one-off     *)
(* pipeline for a context writer is zap.New(core) without any option.      *)
(***************************************************************************)
\* get without the forced-verbose route: the debug handle is never chosen.
get_noDebugRoute(l, ctx, level) ==
    LET z == IF ~Enabled(l.levelEnabler, level) THEN Nil ELSE l.sugared
    IN IF z = Nil THEN Nil
       ELSE IF ctx.writer
            THEN Pipeline(FixedGate(l.levelEnabler.lvl), "w", FALSE, 0, <<>>)
            ELSE z

\* get without the context writer: the handle chosen is returned as it is.
get_ignoresWriter(l, ctx, level) ==
    LET z0 == IF ~Enabled(l.levelEnabler, level) THEN Nil ELSE l.sugared
    IN IF ctx.debug THEN l.debug ELSE z0

get(l, ctx, level) ==
    LET z0 == IF ~Enabled(l.levelEnabler, level) THEN Nil ELSE l.sugared
        isDebug == ctx.debug
        z == IF isDebug THEN l.debug ELSE z0
    IN IF z = Nil THEN Nil
       ELSE IF ctx.writer
            THEN Pipeline(IF ~isDebug THEN FixedGate(l.levelEnabler.lvl)
                                      ELSE FixedGate(DebugLevel),
                          "w", FALSE, 0, <<>>)
            ELSE z

(***************************************************************************)
(* Record assembly.                                                        *)
(***************************************************************************)
\* kv = keysAndValues, or keysAndValues followed by ctxd.Fields(ctx).
\* The merge with the context fields put first.
merge_fieldsFirst(keysAndValues, fv) == fv \o keysAndValues

merge(keysAndValues, fv) ==
    IF Len(fv) > 0 THEN keysAndValues \o fv ELSE keysAndValues

\* for j := 0; j < len(kv)-1; j += 2 { if kv[j] == key { exists = true } }
\* The scan of expandError looking at the value positions.
exists_valuePositions(kv, key) ==
    \E j \in 1..Len(kv) : j % 2 = 0 /\ kv[j] = key

exists(kv, key) ==
    \E j \in 1..(Len(kv) - 1) : j % 2 = 1 /\ kv[j] = key

\* The loop of expandError over tuples, from 1-based position k.
RECURSIVE appendTuples(_, _, _)
appendTuples(kv, tuples, k) ==
    IF k > Len(tuples) - 1 THEN kv
    ELSE IF ~exists(kv, tuples[k])
         THEN appendTuples(kv \o <<tuples[k], tuples[k + 1]>>, tuples, k + 2)
         ELSE appendTuples(kv, tuples, k + 2)

\* expandError(kv, se, i): i is the 1-based position of the value.
expandError(kv, se, i) ==
    appendTuples([kv EXCEPT ![i] = Str(ErrorMsg(se))], Tuples(se), 1)

\* for i := 1; i < len(kv); i += 2 { ... }, len(kv) read at every turn.
RECURSIVE expandFrom(_, _)
expandFrom(kv, i) ==
    IF i > Len(kv) THEN kv
    ELSE IF IsError(kv[i])
         THEN LET e == kv[i].n
                  kv1 == [kv EXCEPT ![i] = Str(ErrorMsg(e))]
                  kv2 == IF AsStructured(e) # 0
                         THEN expandError(kv1, AsStructured(e), i)
                         ELSE kv1
              IN expandFrom(kv2, i + 2)
         ELSE expandFrom(kv, i + 2)

assemble(keysAndValues, fv) == expandFrom(merge(keysAndValues, fv), 2)

(***************************************************************************)
(* The caller's slice.  Without context fields kv is keysAndValues itself: *)
(* the same backing array, so kv[i] = ... writes into the slice the caller *)
(* passed (l.Info(ctx, msg, args...)).  An append of expandError that      *)
(* finds no spare capacity moves kv to a new array, and the later writes   *)
(* no longer reach the caller's; with spare capacity they still do.        *)
(***************************************************************************)
\* The caller's slice after the loop from position i on: shared tells
\* whether kv still is the caller's array, spare whether that array has
\* room for what expandError appends.
RECURSIVE loopOnCallerSlice(_, _, _, _, _)
loopOnCallerSlice(kv, caller, shared, spare, i) ==
    IF i > Len(kv) THEN caller
    ELSE IF IsError(kv[i])
         THEN LET e == kv[i].n
                  kv1 == [kv EXCEPT ![i] = Str(ErrorMsg(e))]
                  kv2 == IF AsStructured(e) # 0
                         THEN expandError(kv1, AsStructured(e), i)
                         ELSE kv1
                  caller1 == IF shared /\ i <= Len(caller)
                             THEN [caller EXCEPT ![i] = kv2[i]]
                             ELSE caller
                  shared1 == shared /\ (spare \/ Len(kv2) = Len(kv1))
              IN loopOnCallerSlice(kv2, caller1, shared1, spare, i + 2)
         ELSE loopOnCallerSlice(kv, caller, shared, spare, i + 2)

\* keysAndValues as the caller finds it after a call that got a pipeline.
callerSlice(keysAndValues, fv, spare) ==
    loopOnCallerSlice(merge(keysAndValues, fv), keysAndValues, ~(Len(fv) > 0), spare, 2)

(***************************************************************************)
(* Emission: z.Debugw/Infow/Warnw/Errorw.  The core checks its gate, then  *)
(* writes one record to its sink: the fields of the pipeline's options,    *)
(* then the key/value sequence of the call.                                *)
(***************************************************************************)
NoCaller == 0 - 1

Record(z, level, msg, kv) ==
    [level |-> level, msg |-> msg,
     caller |-> IF z.addCaller THEN z.skip ELSE NoCaller,
     kv |-> z.fields \o kv]

Emits(z, level) == z # Nil /\ GateEnabled(z.gate, level)

\* The sinks after a call that resolved pipeline z.
Write(z, level, msg, kv) ==
    IF ~Emits(z, level) THEN <<out, w>>
    ELSE IF z.sink = "out" THEN <<Append(out, Record(z, level, msg, kv)), w>>
    ELSE <<out, Append(w, Record(z, level, msg, kv))>>

(***************************************************************************)
(* History.  last: the last log call and what it saw (afterSet: the        *)
(* operation before it was a SetLevelEnabler to setLvl that returned, on   *)
(* the same Logger; afterImportant: the log call before it was Important   *)
(* on the same Logger with the same context; kvAfter: the slice the caller *)
(* passed, as the call left it).  lastSet: the last SetLevelEnabler call; fresh while  *)
(* it returned and no log call has followed it; via tells it from a        *)
(* SetLevel on the exported AtomicLevel field.                             *)
(* origin: for every Logger value of the heap, how it was made.            *)
(***************************************************************************)
NoCtx == Ctx(FALSE, FALSE, <<>>)

NoCall ==
    [op |-> "none", lg |-> NoLogger, level |-> 0, ctx |-> NoCtx, kv |-> <<>>,
     enabler |-> Enabler("none", 0), outLen |-> 0, wLen |-> 0,
     afterSet |-> FALSE, setLvl |-> 0, afterImportant |-> FALSE, kvAfter |-> <<>>]

\* How Logger value l came to be: its constructor, the receiver it was
\* derived from, its pipelines as they were made and, where New was given
\* options, those of the configuration and those of the argument list.
Made(ctor, of, l) ==
    [ctor |-> ctor, of |-> of, callerSkip |-> l.callerSkip,
     sugared |-> l.sugared, debug |-> l.debug,
     ZapOptions |-> <<>>, options |-> <<>>]

NoSet ==
    [lg |-> NoLogger, enabler |-> Enabler("none", 0), panicked |-> FALSE,
     fresh |-> FALSE, via |-> "none"]

\* The goroutine that stores level enablers: not in a store, none stored.
NoSetter == [pc |-> "idle", enabler |-> Enabler("none", 0), stores |-> 0]

(***************************************************************************)
(* The five operations.  Each is get, then (unless it returned nil) the    *)
(* assembly of the key/value sequence and one call of the pipeline.        *)
(***************************************************************************)
\* The operations with the forced route of Important kept for the call
\* that follows it.
log_routeOfImportantKept(op, lg, routeCtx, ctx, level, msg, keysAndValues) ==
    LET l == loggers[lg]
        z == get(l, IF last.op = "Important" THEN WithDebug(routeCtx) ELSE routeCtx, level)
        kv == IF z = Nil THEN <<>> ELSE assemble(keysAndValues, ctx.fields)
        sinks == Write(z, level, msg, kv)
    IN /\ ~aborted
       /\ out' = sinks[1]
       /\ w' = sinks[2]
       /\ calls' = calls + 1
       /\ last' = [op |-> op, lg |-> lg, level |-> level, ctx |-> ctx,
                   kv |-> keysAndValues, enabler |-> l.levelEnabler,
                   outLen |-> Len(out), wLen |-> Len(w),
                   afterSet |-> lastSet.fresh /\ lastSet.lg = lg,
                   setLvl |-> IF lastSet.fresh /\ lastSet.lg = lg
                              THEN lastSet.enabler.lvl ELSE 0,
                   afterImportant |->
                      last.op = "Important" /\ last.lg = lg /\ last.ctx = ctx,
                   kvAfter |-> keysAndValues]
       /\ lastSet' = [lastSet EXCEPT !.fresh = FALSE]
       /\ UNCHANGED <<loggers, aborted, origin, goroutines, serialized, setter>>

log(op, lg, routeCtx, ctx, level, msg, keysAndValues) ==
    LET l == loggers[lg]
        z == get(l, routeCtx, level)
        kv == IF z = Nil THEN <<>> ELSE assemble(keysAndValues, ctx.fields)
        sinks == Write(z, level, msg, kv)
    IN /\ ~aborted
       /\ out' = sinks[1]
       /\ w' = sinks[2]
       /\ calls' = calls + 1
       /\ \E spare \in BOOLEAN :
             last' = [op |-> op, lg |-> lg, level |-> level, ctx |-> ctx,
                      kv |-> keysAndValues, enabler |-> l.levelEnabler,
                      outLen |-> Len(out), wLen |-> Len(w),
                      afterSet |-> lastSet.fresh /\ lastSet.lg = lg,
                      setLvl |-> IF lastSet.fresh /\ lastSet.lg = lg
                                 THEN lastSet.enabler.lvl ELSE 0,
                      afterImportant |->
                         last.op = "Important" /\ last.lg = lg /\ last.ctx = ctx,
                      kvAfter |-> IF z = Nil THEN keysAndValues
                                  ELSE callerSlice(keysAndValues, ctx.fields, spare)]
       /\ lastSet' = [lastSet EXCEPT !.fresh = FALSE]
       /\ UNCHANGED <<loggers, aborted, origin, goroutines, serialized, setter>>

Debug(lg, ctx, msg, kv) == log("Debug", lg, ctx, ctx, DebugLevel, msg, kv)

Info(lg, ctx, msg, kv) == log("Info", lg, ctx, ctx, InfoLevel, msg, kv)

\* Important routed by the context as given.
Important_plainCtx(lg, ctx, msg, kv) == log("Important", lg, ctx, ctx, InfoLevel, msg, kv)

Important(lg, ctx, msg, kv) == log("Important", lg, WithDebug(ctx), ctx, InfoLevel, msg, kv)

Warn(lg, ctx, msg, kv) == log("Warn", lg, ctx, ctx, WarnLevel, msg, kv)

Error(lg, ctx, msg, kv) == log("Error", lg, ctx, ctx, ErrorLevel, msg, kv)

(***************************************************************************)
(* SetLevelEnabler: panics when the current enabler is a zapcore.Core,     *)
(* otherwise replaces the levelEnabler field of this Logger value.         *)
(***************************************************************************)
SetLevelEnablerPanics(l) == l.levelEnabler.kind = "core"

SetLevelEnabler(lg, enabler) ==
    /\ ~aborted
    /\ lastSet' = [lg |-> lg, enabler |-> enabler,
                   panicked |-> SetLevelEnablerPanics(loggers[lg]),
                   fresh |-> ~SetLevelEnablerPanics(loggers[lg]),
                   via |-> "SetLevelEnabler"]
    /\ IF SetLevelEnablerPanics(loggers[lg])
       THEN /\ aborted' = TRUE
            /\ UNCHANGED loggers
       ELSE /\ loggers' = [loggers EXCEPT ![lg].levelEnabler = enabler]
            /\ UNCHANGED aborted
    /\ UNCHANGED <<out, w, calls, last, origin, goroutines, serialized, setter>>

(***************************************************************************)
(* l.AtomicLevel.SetLevel(lvl), on the exported field: zap stores the      *)
(* level through the pointer of the AtomicLevel, which is nil in the zero  *)
(* value, so the call panics with a nil pointer dereference.  The field is *)
(* not the levelEnabler of the Logger: a store through a pointer that is   *)
(* not nil would not reach the pipelines either.                           *)
(***************************************************************************)
AtomicLevelSetLevel(lg, lvl) ==
    /\ ~aborted
    /\ lastSet' = [lg |-> lg, enabler |-> Enabler("threshold", lvl),
                   panicked |-> loggers[lg].AtomicLevel.l = "nil",
                   fresh |-> FALSE, via |-> "AtomicLevel"]
    /\ aborted' = (loggers[lg].AtomicLevel.l = "nil")
    /\ UNCHANGED <<loggers, out, w, calls, last, origin, goroutines, serialized, setter>>

(***************************************************************************)
(* SkipCaller: the receiver itself when callerSkip is unset, otherwise a   *)
(* copy of the receiver whose two pipelines skip one more frame (the       *)
(* cores, and so the closure over the first Logger, are shared).           *)
(***************************************************************************)
AddCallerSkip(z, n) == [z EXCEPT !.skip = z.skip + n]

SkipCallerView(l) ==
    [l EXCEPT !.debug = AddCallerSkip(l.debug, 1),
              !.sugared = AddCallerSkip(l.sugared, 1)]

\* SkipCaller adding the skipped frame to the receiver itself.
SkipCallerHeap_inPlace(lg) ==
    IF ~loggers[lg].callerSkip THEN loggers
    ELSE [loggers EXCEPT ![lg] = SkipCallerView(loggers[lg])]

\* The heap after l.SkipCaller(): a view is a new Logger value.
SkipCallerHeap(lg) ==
    IF ~loggers[lg].callerSkip THEN loggers
    ELSE Append(loggers, SkipCallerView(loggers[lg]))

SkipCaller(lg) ==
    /\ ~aborted
    /\ loggers' = SkipCallerHeap(lg)
    /\ origin' = IF ~loggers[lg].callerSkip THEN origin
                 ELSE Append(origin, Made("SkipCaller", lg, loggers'[Len(loggers')]))
    /\ UNCHANGED <<out, w, calls, last, lastSet, aborted, goroutines, serialized, setter>>

(***************************************************************************)
(* Inputs of the calls.                                                    *)
(***************************************************************************)
RouteArgs == {<<Str("foo"), Num(1)>>}

RouteFields == {<<Str("bar"), Num(2)>>}

RouteCtxs == {Ctx(d, wr, f) : d \in BOOLEAN, wr \in BOOLEAN, f \in RouteFields}

EnablerInputs == {Enabler("threshold", lvl) : lvl \in Levels} \cup {Enabler("core", InfoLevel)}

\* The level of the documented use: logger.AtomicLevel.SetLevel(zap.DebugLevel).
AtomicLevelInputs == {DebugLevel}

LoggerIds == 1..Len(loggers)

\* The message of a call names its place in the sequence of calls.
NextMsg == calls + 1

(***************************************************************************)
(* Specification of the sequential use of one Logger and its views.        *)
(***************************************************************************)
InitCommon ==
    /\ out = <<>>
    /\ w = <<>>
    /\ calls = 0
    /\ last = NoCall
    /\ lastSet = NoSet
    /\ aborted = FALSE
    /\ goroutines = <<>>
    /\ serialized = TRUE
    /\ setter = NoSetter

Init ==
    /\ InitCommon
    /\ \/ \E cfgLevel \in Levels, devMode \in BOOLEAN :
            /\ loggers = <<New(1, cfgLevel, devMode, <<>>, <<>>)>>
            /\ origin = <<Made("New", NoLogger, New(1, cfgLevel, devMode, <<>>, <<>>))>>
       \/ \E sl \in Levels, dl \in Levels :
            /\ loggers = <<WrapZapLoggers(sl, dl)>>
            /\ origin = <<Made("WrapZapLoggers", NoLogger, WrapZapLoggers(sl, dl))>>

\* The program makes at most MaxCalls log calls on at most MaxLoggers
\* Logger values, and stops after the last call.
Running == calls < MaxCalls

Next ==
    \/ \E lg \in LoggerIds, ctx \in RouteCtxs, kv \in RouteArgs :
          Running /\ Debug(lg, ctx, NextMsg, kv)
    \/ \E lg \in LoggerIds, ctx \in RouteCtxs, kv \in RouteArgs :
          Running /\ Info(lg, ctx, NextMsg, kv)
    \/ \E lg \in LoggerIds, ctx \in RouteCtxs, kv \in RouteArgs :
          Running /\ Important(lg, ctx, NextMsg, kv)
    \/ \E lg \in LoggerIds, ctx \in RouteCtxs, kv \in RouteArgs :
          Running /\ Warn(lg, ctx, NextMsg, kv)
    \/ \E lg \in LoggerIds, ctx \in RouteCtxs, kv \in RouteArgs :
          Running /\ Error(lg, ctx, NextMsg, kv)
    \/ \E lg \in LoggerIds, e \in EnablerInputs :
          Running /\ SetLevelEnabler(lg, e)
    \/ \E lg \in LoggerIds :
          Running /\ Len(loggers) < MaxLoggers /\ SkipCaller(lg)
    \/ \E lg \in LoggerIds, lvl \in AtomicLevelInputs :
          Running /\ AtomicLevelSetLevel(lg, lvl)

Spec == Init /\ [][Next]_vars

(***************************************************************************)
(* Specification of SkipCaller: a Logger, the views made from it and from  *)
(* its views, and log calls on any of them through the normal and the      *)
(* forced-debug pipeline.                                                  *)
(***************************************************************************)
ViewCtxs == {Ctx(d, FALSE, <<>>) : d \in BOOLEAN}

InitViews ==
    /\ InitCommon
    /\ \/ \E cfgLevel \in Levels, devMode \in BOOLEAN :
            /\ loggers = <<New(1, cfgLevel, devMode, <<>>, <<>>)>>
            /\ origin = <<Made("New", NoLogger, New(1, cfgLevel, devMode, <<>>, <<>>))>>
       \/ /\ loggers = <<WrapZapLoggers(InfoLevel, DebugLevel)>>
          /\ origin = <<Made("WrapZapLoggers", NoLogger,
                             WrapZapLoggers(InfoLevel, DebugLevel))>>

NextViews ==
    \/ \E lg \in LoggerIds, ctx \in ViewCtxs, kv \in RouteArgs :
          calls < MaxViewCalls /\ Info(lg, ctx, NextMsg, kv)
    \/ \E lg \in LoggerIds :
          calls < MaxViewCalls /\ Len(loggers) < MaxViews /\ SkipCaller(lg)

SpecViews == InitViews /\ [][NextViews]_vars

(***************************************************************************)
(* Specification of the record assembly: one log call on a Logger built by *)
(* New at Debug level, with the call's key/value arguments and the         *)
(* context's fields drawn from the well-formed sequences (whole pairs)     *)
(* over a few keys and values, errors among them.                          *)
(***************************************************************************)
ArgKeys == {Str("foo"), Str("detail")}
\* The second error is reached through its wrapper, the fourth.
ArgValues == {Num(1)} \cup {Err(e) : e \in Errors \ {2}}
FieldKeys == {Str("foo"), Str("ctx")}
FieldValues == {Num(7), Err(3)}

\* The flat sequences of at most n pairs with keys from ks, values from vs.
RECURSIVE PairSeqs(_, _, _)
PairSeqs(ks, vs, n) ==
    IF n = 0 THEN {<<>>}
    ELSE LET shorter == PairSeqs(ks, vs, n - 1)
         IN shorter \cup {s \o <<k, v>> : s \in shorter, k \in ks, v \in vs}

FieldArgs == PairSeqs(ArgKeys, ArgValues, MaxArgPairs)

FieldCtxs == {Ctx(FALSE, FALSE, f) : f \in PairSeqs(FieldKeys, FieldValues, MaxFieldPairs)}

InitFields ==
    /\ InitCommon
    /\ loggers = <<New(1, DebugLevel, FALSE, <<>>, <<>>)>>
    /\ origin = <<Made("New", NoLogger, New(1, DebugLevel, FALSE, <<>>, <<>>))>>

\* One call per behaviour.
NextFields ==
    \/ calls = 0 /\ \E ctx \in FieldCtxs, kv \in FieldArgs : Debug(1, ctx, NextMsg, kv)
    \/ calls = 0 /\ \E ctx \in FieldCtxs, kv \in FieldArgs : Info(1, ctx, NextMsg, kv)
    \/ calls = 0 /\ \E ctx \in FieldCtxs, kv \in FieldArgs : Important(1, ctx, NextMsg, kv)
    \/ calls = 0 /\ \E ctx \in FieldCtxs, kv \in FieldArgs : Warn(1, ctx, NextMsg, kv)
    \/ calls = 0 /\ \E ctx \in FieldCtxs, kv \in FieldArgs : Error(1, ctx, NextMsg, kv)

SpecFields == InitFields /\ [][NextFields]_vars

(***************************************************************************)
(* Specification of concurrent callers: MaxGoroutines goroutines each call *)
(* Error once on the same Logger with the same context, which carries a    *)
(* writer and no fields.  Every call builds its own pipeline in get and    *)
(* hands the writer one Write with the whole record; zapctxd puts no lock  *)
(* around the writer.  A writer either serializes its Write calls          *)
(* (serialized) or, like a bytes.Buffer, does not: two Write calls that    *)
(* overlap are then a data race, after which the record may be appended,   *)
(* lost, or torn.                                                          *)
(***************************************************************************)
Goroutines == 1..MaxGoroutines

ConcCtx == Ctx(FALSE, TRUE, <<>>)

\* What a torn write leaves in the writer.
Torn == [level |-> ErrorLevel, msg |-> 0, caller |-> NoCaller, kv |-> <<>>]

\* The record goroutine g hands to the writer; its message is g.
ConcRecord(g) ==
    Record(get(loggers[1], ConcCtx, ErrorLevel), ErrorLevel, g, assemble(<<>>, ConcCtx.fields))

Writing == {g \in Goroutines : goroutines[g].pc = "writing"}

\* A writer that never makes a Write wait.
SinkNeverLocked == FALSE

\* A serializing writer makes a Write wait for the one in progress.
SinkLocked == serialized /\ Writing # {}

\* get and the assembly of the call of goroutine g.
ErrorCall(g) ==
    /\ goroutines[g].pc = "go"
    /\ goroutines' =
          [goroutines EXCEPT ![g].pc =
              IF Emits(get(loggers[1], ConcCtx, ErrorLevel), ErrorLevel)
              THEN "write" ELSE "done"]
    /\ UNCHANGED <<loggers, out, w, calls, last, lastSet, aborted, origin, serialized, setter>>

\* The pipeline of goroutine g enters the Write of the writer.
WriteBegin(g) ==
    /\ goroutines[g].pc = "write"
    /\ ~SinkLocked
    /\ goroutines' =
          [h \in Goroutines |->
              IF h = g THEN [pc |-> "writing", raced |-> Writing # {}]
              ELSE IF h \in Writing THEN [goroutines[h] EXCEPT !.raced = TRUE]
              ELSE goroutines[h]]
    /\ UNCHANGED <<loggers, out, w, calls, last, lastSet, aborted, origin, serialized, setter>>

\* The Write of goroutine g returns, and with it the call.
WriteEnd(g) ==
    /\ goroutines[g].pc = "writing"
    /\ \/ w' = Append(w, ConcRecord(g))
       \/ goroutines[g].raced /\ w' = w
       \/ goroutines[g].raced /\ w' = Append(w, Torn)
    /\ goroutines' = [goroutines EXCEPT ![g].pc = "done"]
    /\ UNCHANGED <<loggers, out, calls, last, lastSet, aborted, origin, serialized, setter>>

InitConc ==
    /\ out = <<>>
    /\ w = <<>>
    /\ calls = 0
    /\ last = NoCall
    /\ lastSet = NoSet
    /\ aborted = FALSE
    /\ goroutines = [g \in Goroutines |-> [pc |-> "go", raced |-> FALSE]]
    /\ serialized \in BOOLEAN
    /\ setter = NoSetter
    /\ \E cfgLevel \in Levels, devMode \in BOOLEAN :
          /\ loggers = <<New(1, cfgLevel, devMode, <<>>, <<>>)>>
          /\ origin = <<Made("New", NoLogger, New(1, cfgLevel, devMode, <<>>, <<>>))>>

NextConc ==
    \/ \E g \in Goroutines : ErrorCall(g)
    \/ \E g \in Goroutines : WriteBegin(g)
    \/ \E g \in Goroutines : WriteEnd(g)

SpecConc == InitConc /\ [][NextConc]_vars

(***************************************************************************)
(* Specification of a threshold change during log calls: MaxRaceCallers    *)
(* goroutines each make one severity call on a Logger built by New while   *)
(* another goroutine calls SetLevelEnabler on it.  SetLevelEnabler stores  *)
(* the interface value into the field levelEnabler with a plain            *)
(* assignment, and a log call reads the field with plain reads: in get for *)
(* the check, in get again for the gate of a context-writer pipeline, and  *)
(* in the closure loggerLevelEnabler when the core of the normal pipeline  *)
(* checks the entry.  A read during a store is a data race: it yields the  *)
(* old value, the new value or, when the store replaces the AtomicLevel    *)
(* made by New by a value of another dynamic type, a torn interface value  *)
(* (the type word of one, the data word of the other).                     *)
(***************************************************************************)
RaceCallers == 1..MaxRaceCallers

StoreInputs == {Enabler("threshold", lvl) : lvl \in Levels}

TornEnablers == {Enabler("torn", lvl) : lvl \in Levels}

\* What a read of l.levelEnabler can yield now.
levelEnablerReads ==
    IF setter.pc = "storing"
    THEN {loggers[1].levelEnabler, setter.enabler}
            \cup (IF setter.stores = 0 THEN TornEnablers ELSE {})
    ELSE {loggers[1].levelEnabler}

RaceCaller(level, writer) ==
    [pc |-> "go", raced |-> FALSE, torn |-> FALSE, level |-> level,
     writer |-> writer, admitted |-> FALSE, gate |-> Enabler("none", 0),
     emitted |-> FALSE]

\* SetLevelEnabler up to the assignment: the current enabler is no Core.
StoreBegin(e) ==
    /\ setter.pc = "idle"
    /\ setter.stores < MaxStores
    /\ ~SetLevelEnablerPanics(loggers[1])
    /\ setter' = [setter EXCEPT !.pc = "storing", !.enabler = e]
    /\ UNCHANGED <<loggers, out, w, calls, last, lastSet, aborted, origin,
                   goroutines, serialized>>

\* l.levelEnabler = enabler is complete.
StoreEnd ==
    /\ setter.pc = "storing"
    /\ loggers' = [loggers EXCEPT ![1].levelEnabler = setter.enabler]
    /\ setter' = [setter EXCEPT !.pc = "idle", !.stores = setter.stores + 1]
    /\ UNCHANGED <<out, w, calls, last, lastSet, aborted, origin,
                   goroutines, serialized>>

\* get: if !l.levelEnabler.Enabled(level) { z = nil }.
GetCheck(g) ==
    /\ goroutines[g].pc = "go"
    /\ \E e \in levelEnablerReads :
          goroutines' =
             [goroutines EXCEPT
                ![g].admitted = Enabled(e, goroutines[g].level),
                ![g].torn = e \in TornEnablers,
                ![g].raced = setter.pc = "storing",
                ![g].pc = IF ~Enabled(e, goroutines[g].level) THEN "done"
                          ELSE IF goroutines[g].writer THEN "gate" ELSE "core"]
    /\ UNCHANGED <<loggers, out, w, calls, last, lastSet, aborted, origin,
                   serialized, setter>>

\* get, with a context writer: level = l.levelEnabler.
GetGate(g) ==
    /\ goroutines[g].pc = "gate"
    /\ \E e \in levelEnablerReads :
          goroutines' =
             [goroutines EXCEPT
                ![g].gate = e,
                ![g].torn = goroutines[g].torn \/ e \in TornEnablers,
                ![g].raced = goroutines[g].raced \/ setter.pc = "storing",
                ![g].pc = "writer core"]
    /\ UNCHANGED <<loggers, out, w, calls, last, lastSet, aborted, origin,
                   serialized, setter>>

\* The core of the one-off pipeline checks the entry against the gate it
\* was built with, and writes the record to the context writer.
WriterCoreCheck(g) ==
    /\ goroutines[g].pc = "writer core"
    /\ goroutines' =
          [goroutines EXCEPT
             ![g].emitted = Enabled(goroutines[g].gate, goroutines[g].level),
             ![g].gate = Enabler("none", 0),
             ![g].pc = "done"]
    /\ w' = IF Enabled(goroutines[g].gate, goroutines[g].level)
            THEN Append(w, Record(Pipeline(FixedGate(goroutines[g].gate.lvl), "w", FALSE, 0, <<>>),
                                  goroutines[g].level, g, <<>>))
            ELSE w
    /\ UNCHANGED <<loggers, out, calls, last, lastSet, aborted, origin,
                   serialized, setter>>

\* The core of the normal pipeline checks the entry: the closure
\* loggerLevelEnabler reads l.levelEnabler, and the record is written to the
\* configured output.
CoreCheck(g) ==
    /\ goroutines[g].pc = "core"
    /\ \E e \in levelEnablerReads :
          /\ goroutines' =
                [goroutines EXCEPT
                   ![g].torn = goroutines[g].torn \/ e \in TornEnablers,
                   ![g].raced = goroutines[g].raced \/ setter.pc = "storing",
                   ![g].emitted = Enabled(e, goroutines[g].level),
                   ![g].pc = "done"]
          /\ out' = IF Enabled(e, goroutines[g].level)
                    THEN Append(out, Record(loggers[1].sugared, goroutines[g].level, g, <<>>))
                    ELSE out
    /\ UNCHANGED <<loggers, w, calls, last, lastSet, aborted, origin,
                   serialized, setter>>

InitRace ==
    /\ out = <<>>
    /\ w = <<>>
    /\ calls = 0
    /\ last = NoCall
    /\ lastSet = NoSet
    /\ aborted = FALSE
    /\ serialized = TRUE
    /\ setter = NoSetter
    /\ \E level \in Levels, writer \in BOOLEAN :
          goroutines = [g \in RaceCallers |-> RaceCaller(level, writer)]
    /\ \E cfgLevel \in Levels :
          /\ loggers = <<New(1, cfgLevel, FALSE, <<>>, <<>>)>>
          /\ origin = <<Made("New", NoLogger, New(1, cfgLevel, FALSE, <<>>, <<>>))>>

NextRace ==
    \/ \E e \in StoreInputs : StoreBegin(e)
    \/ StoreEnd
    \/ \E g \in RaceCallers : GetCheck(g)
    \/ \E g \in RaceCallers : GetGate(g)
    \/ \E g \in RaceCallers : WriterCoreCheck(g)
    \/ \E g \in RaceCallers : CoreCheck(g)

SpecRace == InitRace /\ [][NextRace]_vars

(***************************************************************************)
(* Specification of the options: a Logger built by New with or without     *)
(* options in the configuration and in the argument list, its views, and   *)
(* log calls through the normal pipeline, the forced-debug pipeline and    *)
(* the one-off pipeline of a context writer.                               *)
(***************************************************************************)
ConfigOptionInputs == {<<>>, <<Str("config"), Str("foo")>>}

ConstructorOptionInputs == {<<>>, <<Str("constructor"), Str("bar")>>}

OptionCtxs == {Ctx(d, wr, f) : d \in BOOLEAN, wr \in BOOLEAN, f \in {<<>>} \cup RouteFields}

InitOptions ==
    /\ InitCommon
    /\ \E cfgLevel \in Levels, devMode \in BOOLEAN,
          zo \in ConfigOptionInputs, o \in ConstructorOptionInputs :
            /\ loggers = <<New(1, cfgLevel, devMode, zo, o)>>
            /\ origin = <<[Made("New", NoLogger, New(1, cfgLevel, devMode, zo, o))
                             EXCEPT !.ZapOptions = zo, !.options = o]>>

NextOptions ==
    \/ calls < MaxOptionCalls /\ \E lg \in LoggerIds, ctx \in OptionCtxs, kv \in RouteArgs :
          Debug(lg, ctx, NextMsg, kv)
    \/ calls < MaxOptionCalls /\ \E lg \in LoggerIds, ctx \in OptionCtxs, kv \in RouteArgs :
          Info(lg, ctx, NextMsg, kv)
    \/ calls < MaxOptionCalls /\ \E lg \in LoggerIds, ctx \in OptionCtxs, kv \in RouteArgs :
          Important(lg, ctx, NextMsg, kv)
    \/ calls < MaxOptionCalls /\ \E lg \in LoggerIds, ctx \in OptionCtxs, kv \in RouteArgs :
          Warn(lg, ctx, NextMsg, kv)
    \/ calls < MaxOptionCalls /\ \E lg \in LoggerIds, ctx \in OptionCtxs, kv \in RouteArgs :
          Error(lg, ctx, NextMsg, kv)
    \/ calls < MaxOptionCalls /\ Len(loggers) < MaxOptionViews /\ \E lg \in LoggerIds :
          SkipCaller(lg)

SpecOptions == InitOptions /\ [][NextOptions]_vars

(***************************************************************************)
(* Vocabulary of the properties.                                           *)
(***************************************************************************)
SeverityOps == {"Debug", "Info", "Warn", "Error"}

\* Records the last log call wrote to the configured output and to the
\* context writer.
OutWritten == SubSeq(out, last.outLen + 1, Len(out))
CtxWritten == SubSeq(w, last.wLen + 1, Len(w))
Written == OutWritten \o CtxWritten

\* The last log call wrote exactly one record, tagged level.
WroteOne(level) == Len(Written) = 1 /\ Written[1].level = level

\* Records sit on a sink in the order of the calls that wrote them.
InCallOrder(sink) == \A i, j \in 1..Len(sink) : i < j => sink[i].msg < sink[j].msg

BuiltBy(lg) == origin[lg].ctor

(***************************************************************************)
(* C1.  A severity operation called without the forced-verbose marker      *)
(* writes nothing when its severity is below the threshold of the Logger   *)
(* it is called on, and exactly one record tagged with its severity when   *)
(* it is at or above it; records appear on each sink in call order.        *)
(***************************************************************************)
C1_ThresholdGate ==
    /\ (last.op \in SeverityOps /\ ~last.ctx.debug) =>
          IF last.level < last.enabler.lvl
          THEN Written = <<>>
          ELSE WroteOne(last.level)
    /\ InCallOrder(out)
    /\ InCallOrder(w)

\* What does hold of the code for C1: the same statement for the calls made
\* on a Logger that is not a view made by SkipCaller.
C1_ThresholdGateOffViews ==
    (last.op \in SeverityOps /\ ~last.ctx.debug /\ BuiltBy(last.lg) # "SkipCaller") =>
        IF last.level < last.enabler.lvl
        THEN Written = <<>>
        ELSE WroteOne(last.level)

(***************************************************************************)
(* C2.  As claimed: with the forced-verbose marker every severity          *)
(* operation writes exactly one record tagged with its own severity.       *)
(***************************************************************************)
C2_ForcedVerboseEmits ==
    (last.op \in SeverityOps /\ last.ctx.debug) => WroteOne(last.level)

\* The forced-debug route of Logger lg lets level through: its debug
\* pipeline is gated at Debug (always so when built by New or SkipCaller),
\* or the context brings its own writer.
DebugRouteOpen(lg, ctx, level) ==
    \/ ctx.writer
    \/ level >= loggers[lg].debug.gate.lvl

(***************************************************************************)
(* C2, amended.  With the forced-verbose marker a severity operation       *)
(* writes exactly one record tagged with its own severity on every Logger  *)
(* built by New and every view of one, whatever the threshold; on a Logger *)
(* built by WrapZapLoggers it does so exactly when the wrapped debug       *)
(* handle enables the severity or the context carries a writer.            *)
(***************************************************************************)
C2_ForcedVerboseEmitsWhenDebugHandleOpen ==
    (last.op \in SeverityOps /\ last.ctx.debug) =>
        /\ BuiltBy(last.lg) # "WrapZapLoggers" => WroteOne(last.level)
        /\ IF DebugRouteOpen(last.lg, last.ctx, last.level)
           THEN WroteOne(last.level)
           ELSE Written = <<>>

\* A Debug call below a threshold set at run time, forced by the context.
C2_Witness ==
    /\ last.op = "Debug"
    /\ last.ctx.debug
    /\ last.afterSet
    /\ last.enabler.lvl = ErrorLevel
    /\ BuiltBy(last.lg) = "New"
    /\ WroteOne(DebugLevel)

(***************************************************************************)
(* C3.  As claimed: Important writes exactly one record tagged Info for    *)
(* every threshold and every context.                                      *)
(***************************************************************************)
C3_ImportantEmitsInfo ==
    last.op = "Important" => WroteOne(InfoLevel)

(***************************************************************************)
(* C3, amended.  Important writes exactly one record tagged Info for every *)
(* threshold and every context on every Logger built by New and every view *)
(* of one; on a Logger built by WrapZapLoggers it does so exactly when the *)
(* wrapped debug handle enables Info or the context carries a writer, and  *)
(* writes nothing otherwise.                                               *)
(***************************************************************************)
C3_ImportantEmitsInfoWhenDebugHandleOpen ==
    last.op = "Important" =>
        /\ BuiltBy(last.lg) # "WrapZapLoggers" => WroteOne(InfoLevel)
        /\ IF DebugRouteOpen(last.lg, last.ctx, InfoLevel)
           THEN WroteOne(InfoLevel)
           ELSE Written = <<>>

\* Important on a Logger whose threshold excludes Info, plain context.
C3_Witness ==
    /\ last.op = "Important"
    /\ ~last.ctx.debug
    /\ ~last.ctx.writer
    /\ last.enabler.lvl = ErrorLevel
    /\ BuiltBy(last.lg) = "New"
    /\ WroteOne(InfoLevel)
    /\ Len(out) = last.outLen + 1

(***************************************************************************)
(* C4.  After SetLevelEnabler(T) has returned on a Logger, the next log    *)
(* call on it at severity S, without the forced-verbose marker, writes a   *)
(* record if and only if S is at or above T.                               *)
(***************************************************************************)
C4_ThresholdChangeVisible ==
    (last.afterSet /\ last.op \in SeverityOps /\ ~last.ctx.debug) =>
        IF last.level >= last.setLvl
        THEN WroteOne(last.level)
        ELSE Written = <<>>

\* What does hold of the code for C4: the same statement for the calls made
\* on a Logger that is not a view made by SkipCaller.
C4_ThresholdChangeVisibleOffViews ==
    (last.afterSet /\ last.op \in SeverityOps /\ ~last.ctx.debug
        /\ BuiltBy(last.lg) # "SkipCaller") =>
        IF last.level >= last.setLvl
        THEN WroteOne(last.level)
        ELSE Written = <<>>

(***************************************************************************)
(* C8.  A call whose context carries a writer writes nothing to the        *)
(* configured output; it writes exactly one record to the context writer   *)
(* when its gate lets the severity through and nothing otherwise, the gate *)
(* being Debug when the call is forced verbose and the threshold of the    *)
(* Logger otherwise.  A call whose context carries no writer leaves the    *)
(* context writer alone and, when it emits, writes to the configured       *)
(* output.                                                                 *)
(***************************************************************************)
C8_Forced == last.ctx.debug \/ last.op = "Important"

C8_Gate == IF C8_Forced THEN DebugLevel ELSE last.enabler.lvl

C8_ContextWriter ==
    /\ (last.op # "none" /\ last.ctx.writer) =>
          /\ OutWritten = <<>>
          /\ IF last.level >= C8_Gate
             THEN Len(CtxWritten) = 1 /\ CtxWritten[1].level = last.level
             ELSE CtxWritten = <<>>
    /\ (last.op # "none" /\ ~last.ctx.writer) =>
          /\ CtxWritten = <<>>
          /\ Len(OutWritten) <= 1

\* A call with a context writer emitted to it, and the call after it, with
\* no writer in its context, emitted to the configured output.
C8_Witness ==
    /\ Len(w) = 1
    /\ w[1].msg = 1
    /\ last.op \in SeverityOps
    /\ ~last.ctx.writer
    /\ Len(OutWritten) = 1
    /\ OutWritten[1].msg = 2

(***************************************************************************)
(* C9.  SkipCaller never changes a Logger that exists: every Logger of the *)
(* heap keeps the pipelines and the caller-skip flag it was made with, a   *)
(* view differs from the Logger it was derived from only by skipping one   *)
(* frame more in both pipelines, and a record written to the configured    *)
(* output carries the caller depth its Logger was made with.               *)
(***************************************************************************)
C9_SkipCallerKeepsReceiver ==
    /\ Len(origin) = Len(loggers)
    /\ \A i \in LoggerIds :
          /\ loggers[i].sugared = origin[i].sugared
          /\ loggers[i].debug = origin[i].debug
          /\ loggers[i].callerSkip = origin[i].callerSkip
          /\ origin[i].ctor = "SkipCaller" =>
                /\ loggers[i].sugared = AddCallerSkip(loggers[origin[i].of].sugared, 1)
                /\ loggers[i].debug = AddCallerSkip(loggers[origin[i].of].debug, 1)
    /\ (last.op # "none" /\ Len(OutWritten) = 1) =>
          OutWritten[1].caller =
              IF origin[last.lg].callerSkip THEN origin[last.lg].sugared.skip ELSE NoCaller

\* The original Logger logs after a view of a view of it has logged: both
\* records are on the output, each with its own caller depth.
C9_Witness ==
    /\ Len(loggers) = 3
    /\ origin[3].of = 2
    /\ Len(out) = 2
    /\ out[1].caller = 3
    /\ out[2].caller = 1
    /\ last.lg = 1

(***************************************************************************)
(* C10.  SetLevelEnabler panics if and only if the Logger was built by     *)
(* WrapZapLoggers; a panicking call leaves the Logger as it was made.      *)
(***************************************************************************)
C10_PanicsIffWrapped ==
    lastSet.lg # NoLogger =>
        /\ lastSet.panicked <=> BuiltBy(lastSet.lg) = "WrapZapLoggers"
        /\ lastSet.panicked =>
              /\ loggers[lastSet.lg].sugared = origin[lastSet.lg].sugared
              /\ loggers[lastSet.lg].debug = origin[lastSet.lg].debug

(***************************************************************************)
(* Vocabulary of the properties of the record assembly.                    *)
(***************************************************************************)
\* The sequence the call starts from: its arguments, then the context's
\* fields.
Given == last.kv \o last.ctx.fields

\* The key/value sequence of the record the last call wrote.
Emitted == Written[1].kv

KeyPositions(kv) == {p \in 1..Len(kv) : p % 2 = 1}
ValuePositions(kv) == {p \in 1..Len(kv) : p % 2 = 0}

Keys(kv) == {kv[p] : p \in KeyPositions(kv)}

\* The message string an error value is replaced by where no other error
\* is found in its chain.
Rendered(v) == IF IsError(v) THEN Str(ErrorMsg(v.n)) ELSE v

\* The complete tuples of structured error se, as positions of their keys.
TupleKeyPositions(se) == {k \in KeyPositions(Tuples(se)) : k + 1 <= Len(Tuples(se))}

\* The structured errors the call's sequence carries at value positions.
GivenStructured ==
    {AsStructured(Given[p].n) : p \in {q \in ValuePositions(Given) : IsError(Given[q])}} \ {0}

(***************************************************************************)
(* C5.  The record of a log call starts with the call's key/value          *)
(* arguments in the order given, followed by the context's fields in their *)
(* order: every key is at its place, every value that is not an error is   *)
(* at its place unchanged and every error value is a string at its place;  *)
(* nothing is dropped or reordered when keys collide, and nothing follows  *)
(* unless a structured error is among the values.                          *)
(***************************************************************************)
C5_ArgsThenContextFields ==
    (last.op # "none" /\ Len(Written) = 1) =>
        /\ Len(Emitted) >= Len(Given)
        /\ \A p \in 1..Len(Given) :
              IF IsError(Given[p])
              THEN Emitted[p].t = "str"
              ELSE Emitted[p] = Given[p]
        /\ GivenStructured = {} => Len(Emitted) = Len(Given)

\* The call and the context both supply the key foo, with different values.
C5_Witness ==
    /\ last.op = "Debug"
    /\ last.kv = <<Str("detail"), Num(1), Str("foo"), Num(1)>>
    /\ last.ctx.fields = <<Str("foo"), Num(7)>>
    /\ Len(Written) = 1
    /\ Emitted = <<Str("detail"), Num(1), Str("foo"), Num(1), Str("foo"), Num(7)>>

(***************************************************************************)
(* C6.  Structured-error expansion appends a tuple's pair if and only if   *)
(* its key is not yet a key of the sequence: every appended key occurs at  *)
(* no earlier key position, the pairs supplied by the call and the context *)
(* stay where they are, every key of a complete tuple of an expanded error *)
(* is a key of the record, and a key exposed by several errors of the call *)
(* carries the value of the first of them.                                 *)
(***************************************************************************)
\* The first value position of the call's sequence whose error exposes key,
\* 0 if none does.
C6_Exposes(p, key) ==
    /\ IsError(Given[p])
    /\ AsStructured(Given[p].n) # 0
    /\ \E k \in TupleKeyPositions(AsStructured(Given[p].n)) :
          Tuples(AsStructured(Given[p].n))[k] = key

C6_FirstExposing(key) ==
    LET ps == {p \in ValuePositions(Given) : C6_Exposes(p, key)}
    IN IF ps = {} THEN 0 ELSE CHOOSE p \in ps : \A q \in ps : p <= q

\* The value of the first complete tuple of se with this key.
C6_TupleValue(se, key) ==
    LET ks == {k \in TupleKeyPositions(se) : Tuples(se)[k] = key}
        k == CHOOSE x \in ks : \A y \in ks : x <= y
    IN Tuples(se)[k + 1]

C6_ExpansionDeduplicates ==
    (last.op # "none" /\ Len(Written) = 1) =>
        /\ Len(Emitted) >= Len(Given)
        /\ Len(Emitted) % 2 = 0
        \* only if: an appended key was not a key before
        /\ \A p \in KeyPositions(Emitted) :
              p > Len(Given) => \A q \in KeyPositions(Emitted) : q < p => Emitted[q] # Emitted[p]
        \* the keys given directly stay, with their values
        /\ \A p \in 1..Len(Given) : ~IsError(Given[p]) => Emitted[p] = Given[p]
        \* if: the keys of every expanded error are keys of the record
        /\ \A se \in GivenStructured :
              \A k \in TupleKeyPositions(se) :
                 /\ Tuples(se)[k] \in Keys(Emitted)
                 /\ LET v == Tuples(se)[k + 1]
                    IN (IsError(v) /\ Tuples(se)[k] \notin Keys(Given)) =>
                          \A k2 \in TupleKeyPositions(AsStructured(v.n)) :
                             Tuples(AsStructured(v.n))[k2] \in Keys(Emitted)
        \* the first error exposing a key supplies its value
        /\ \A p \in KeyPositions(Emitted) :
              (p > Len(Given) /\ C6_FirstExposing(Emitted[p]) # 0) =>
                 Emitted[p + 1] =
                    Rendered(C6_TupleValue(
                        AsStructured(Given[C6_FirstExposing(Emitted[p])].n), Emitted[p]))

\* Two structured errors of one call both expose detail, the second with
\* another value, a key the call supplies and a dangling key.
C6_Witness ==
    /\ last.op = "Info"
    /\ last.kv = <<Str("foo"), Err(4), Str("foo"), Err(3)>>
    /\ last.ctx.fields = <<Str("ctx"), Num(7)>>
    /\ Len(Written) = 1
    /\ Emitted = <<Str("foo"), Str("making foo: failed"),
                   Str("foo"), Str("making bar: failed"),
                   Str("ctx"), Num(7),
                   Str("detail"), Num(1), Str("detail2"), Num(2)>>

(***************************************************************************)
(* C7.  Concurrent Error calls whose context carries the same writer each  *)
(* produce exactly one well-formed record: once all calls have returned    *)
(* the writer holds as many records as there were calls, one per call,     *)
(* none torn, and the configured output holds nothing.                     *)
(***************************************************************************)
AllReturned == goroutines # <<>> /\ \A g \in Goroutines : goroutines[g].pc = "done"

OneRecordPerCall ==
    /\ Len(w) = MaxGoroutines
    /\ \A g \in Goroutines : \E i \in 1..Len(w) : w[i] = ConcRecord(g)
    /\ \A i \in 1..Len(w) : w[i] # Torn
    /\ out = <<>>

C11_ReadsCompleteNoRace ==
    \A g \in RaceCallers :
       /\ ~goroutines[g].raced
       /\ ~goroutines[g].torn

(***************************************************************************)
(* C16.  A log call uses the threshold it read at its start for the whole  *)
(* call: a call that has returned has written its record exactly when the  *)
(* threshold read by the check in get enabled its severity (admitted).     *)
(***************************************************************************)
C16_SingleSnapshot ==
    \A g \in RaceCallers :
       goroutines[g].pc = "done" =>
          (goroutines[g].emitted <=> goroutines[g].admitted)

(***************************************************************************)
(* C12.  AtomicLevel.SetLevel(L) on a Logger built by New returns and      *)
(* makes L the threshold of the Logger, so that the calls after it are     *)
(* gated by L.                                                             *)
(***************************************************************************)
C12_AtomicLevelSetsThreshold ==
    (lastSet.via = "AtomicLevel" /\ BuiltBy(lastSet.lg) = "New") =>
        /\ ~lastSet.panicked
        /\ ~aborted
        /\ loggers[lastSet.lg].levelEnabler.lvl = lastSet.enabler.lvl

(***************************************************************************)
(* C13.  Every record on the configured output starts with the fields of   *)
(* the options of the configuration, followed by the fields of the options *)
(* given to New as arguments, followed by the fields of the call: its      *)
(* arguments, then the fields of the context.                              *)
(***************************************************************************)
C13_OptionFields == origin[1].ZapOptions \o origin[1].options

C13_OptionsBeforeCallFields ==
    (last.op # "none" /\ Len(OutWritten) = 1) =>
        /\ Len(OutWritten[1].kv) = Len(C13_OptionFields) + Len(last.kv) + Len(last.ctx.fields)
        /\ SubSeq(OutWritten[1].kv, 1, Len(C13_OptionFields)) = C13_OptionFields
        /\ SubSeq(OutWritten[1].kv, Len(C13_OptionFields) + 1, Len(OutWritten[1].kv))
              = last.kv \o last.ctx.fields

\* A view logs with both kinds of options, arguments and context fields.
C13_Witness ==
    /\ last.op = "Info"
    /\ BuiltBy(last.lg) = "SkipCaller"
    /\ Len(OutWritten) = 1
    /\ OutWritten[1].kv = <<Str("config"), Str("foo"), Str("constructor"), Str("bar"),
                            Str("foo"), Num(1), Str("bar"), Num(2)>>

(***************************************************************************)
(* C19.  A record written to the writer of the context has the content of  *)
(* the record the same call writes to the configured output when the       *)
(* context carries no writer: the same severity, message and fields, those *)
(* of the options of the Logger included.                                  *)
(***************************************************************************)
\* The record the last call writes when its context carries no writer.
C19_ToConfiguredOutput ==
    LET routed == IF last.op = "Important" THEN WithDebug(last.ctx) ELSE last.ctx
        plain == [routed EXCEPT !.writer = FALSE]
    IN Record(get(loggers[last.lg], plain, last.level), last.level,
              CtxWritten[1].msg, assemble(last.kv, last.ctx.fields))

C19_WriterChangesDestinationOnly ==
    (last.op # "none" /\ Len(CtxWritten) = 1) =>
        /\ CtxWritten[1].level = C19_ToConfiguredOutput.level
        /\ CtxWritten[1].msg = C19_ToConfiguredOutput.msg
        /\ CtxWritten[1].kv = C19_ToConfiguredOutput.kv

(***************************************************************************)
(* C14.  Every error value of the merged sequence is replaced, at its      *)
(* position, by its own message string, whether it is a plain error, a     *)
(* structured error or an error wrapping a structured one; every other     *)
(* value is passed through unchanged.                                      *)
(***************************************************************************)
C14_ErrorsRenderedInPlace ==
    (last.op # "none" /\ Len(Written) = 1) =>
        /\ Len(Emitted) >= Len(Given)
        /\ \A p \in ValuePositions(Given) : Emitted[p] = Rendered(Given[p])

(***************************************************************************)
(* C18.  A log call leaves the key/value sequence the caller passed as it  *)
(* was: after the call every element is the value it was before.           *)
(***************************************************************************)
C18_CallerSliceUnchanged ==
    last.op # "none" => last.kvAfter = last.kv

(***************************************************************************)
(* C15.  A Logger and the views made from it by SkipCaller gate on one     *)
(* threshold: at any time all of them hold the same level enabler, and a   *)
(* severity called without the forced-verbose marker is emitted by one of  *)
(* them if and only if it is emitted by every other.                       *)
(***************************************************************************)
C15_OneSharedThreshold ==
    \A i, j \in LoggerIds :
       /\ loggers[i].levelEnabler = loggers[j].levelEnabler
       /\ \A level \in Levels :
             Emits(get(loggers[i], NoCtx, level), level)
                <=> Emits(get(loggers[j], NoCtx, level), level)

(***************************************************************************)
(* C17.  A log call changes neither the threshold nor the pipelines of any *)
(* Logger, and the forced route of Important does not stay with the        *)
(* context: a severity call below the threshold that follows Important on  *)
(* the same Logger with the same context, not forced-verbose, writes       *)
(* nothing.                                                                *)
(***************************************************************************)
C17_ImportantDoesNotLeak ==
    (/\ last.afterImportant
     /\ last.op \in SeverityOps
     /\ ~last.ctx.debug
     /\ last.level < last.enabler.lvl) => Written = <<>>

C17_LogCallsKeepLoggerAndContext ==
    /\ []C17_ImportantDoesNotLeak
    /\ [][calls' # calls => (loggers' = loggers /\ origin' = origin)]_vars

\* Important has written to the writer of a context; Debug, below the
\* threshold, with the same context writes nothing.
C17_Witness ==
    /\ last.afterImportant
    /\ last.op = "Debug"
    /\ ~last.ctx.debug
    /\ last.ctx.writer
    /\ last.level < last.enabler.lvl
    /\ BuiltBy(last.lg) = "New"
    /\ Len(w) = 1
    /\ w[1].level = InfoLevel
    /\ Written = <<>>

====
